---- MODULE Spec2Model ----
(***************************************************************************)
(* State-machine model of src/server.js (class MultiplayerServer): the     *)
(* session registry `players`, the message handlers, the location-scoped   *)
(* broadcast, the disconnect cleanup and the periodic reaper.              *)
(*                                                                         *)
(* Node runs every handler to completion on one thread, so a handler is    *)
(* one atomic step of the model, except where its outcome depends on the   *)
(* environment: whether ws.send throws for a given socket.  That choice is *)
(* made once per socket and handler run (SendOk / SendThrows); between     *)
(* two such choices the handler runs deterministically (Settle).           *)
(*                                                                         *)
(* The nested calls sendToPlayer -> handlePlayerDisconnect ->              *)
(* broadcastToLocation -> sendToPlayer are kept on an explicit call stack  *)
(* (`stack`, top first), because handlePlayerDisconnect deletes the        *)
(* session only after its broadcast has returned.                          *)
(***************************************************************************)
EXTENDS Integers, Sequences, FiniteSets, TLC

\* ---------------------------------------------------------------- bounds
\* Connections accepted over a run (uuid v4 ids are modelled as 1, 2, ...):
\* MaxPlayers under Spec and SpecData, MaxCrowd under SpecCrowd.
MaxPlayers == 2
MaxCrowd == 3
\* Clock advances (each by `timeout` ms) over a run.
MaxTicks == 2
\* Nested handlePlayerDisconnect activations the stack holds before the
\* engine raises RangeError (Maximum call stack size exceeded).
MaxDepth == 3

\* ------------------------------------------------------ program constants
timeout == 5 * 60 * 1000
MaxChatLen == 200
MinCoord == 0
MaxCoord == 100

VARIABLES
    players,  \* this.players: Map id -> player object (iteration = insertion order = ascending id)
    ws,       \* ws[id]: readyState of the socket of connection id ("OPEN" / "CLOSED")
    now,      \* Date.now()
    pc,       \* "idle" | "running" (a handler waits for a send outcome) | "done" | "crashed" | "exited"
    ev,       \* the event being handled: [kind, id, msg]
    pre,      \* this.players when the event started
    stack,    \* pending continuations of the running handler, innermost first
    outbox,   \* calls of ws.send made by the running handler, in order, with their outcome
    tx,       \* tx[id]: does ws.send throw for socket id during this handler run
    catcher,  \* id whose handlePlayerMessage try block is still active (0: none)
    overflow, \* the running handler exhausted the call stack (RangeError)
    view      \* view[id]: what the client of connection id has been told of its
              \* location: <<>> before its first player_list, else <<set of ids>>

vars == <<players, ws, now, pc, ev, pre, stack, outbox, tx, catcher, overflow, view>>

Min(a, b) == IF a < b THEN a ELSE b
Max(a, b) == IF a > b THEN a ELSE b

Ids == 1..Max(MaxPlayers, MaxCrowd)

\* ------------------------------------------------------------- JS values
\* A JSON value as the handlers see it: undefined, a number or a string
\* (a sequence of one-character strings).
Undefined == [t |-> "undefined", n |-> 0, s |-> <<>>]
Num(k) == [t |-> "number", n |-> k, s |-> <<>>]
Str(q) == [t |-> "string", n |-> 0, s |-> q]

NaN == [nan |-> TRUE, v |-> 0]
Number(k) == [nan |-> FALSE, v |-> k]

Whitespace == {" ", "\t", "\n"}

RECURSIVE trimStart(_)
trimStart(s) ==
    IF s # <<>> /\ Head(s) \in Whitespace THEN trimStart(Tail(s)) ELSE s

RECURSIVE trimEnd(_)
trimEnd(s) ==
    IF s # <<>> /\ s[Len(s)] \in Whitespace
    THEN trimEnd(SubSeq(s, 1, Len(s) - 1))
    ELSE s

\* String.prototype.trim
trim(s) == trimEnd(trimStart(s))

\* String.prototype.substring(a, b) for 0 <= a <= b
substring(s, a, b) == SubSeq(s, a + 1, Min(b, Len(s)))

Digits == <<"0", "1", "2", "3", "4", "5", "6", "7", "8", "9">>
IsDigit(c) == \E d \in 1..10 : Digits[d] = c
DigitVal(c) == (CHOOSE d \in 1..10 : Digits[d] = c) - 1

RECURSIVE ReadDigits(_, _, _)
ReadDigits(s, acc, seen) ==
    IF s # <<>> /\ IsDigit(Head(s))
    THEN ReadDigits(Tail(s), acc * 10 + DigitVal(Head(s)), TRUE)
    ELSE [ok |-> seen, v |-> acc]

\* parseFloat of a string: leading white space, an optional sign, the longest
\* prefix of decimal digits; NaN when there is no digit.  (The strings of this
\* model hold no ".", exponent or "Infinity", so the literal is an integer.)
parseFloatStr(s) ==
    LET t == trimStart(s)
        signed == t # <<>> /\ Head(t) \in {"-", "+"}
        u == IF signed THEN Tail(t) ELSE t
        r == ReadDigits(u, 0, FALSE)
    IN  IF ~r.ok THEN NaN
        ELSE IF signed /\ Head(t) = "-" THEN Number(0 - r.v)
        ELSE Number(r.v)

\* parseFloat(value): the argument is converted to a string first, so a
\* number parses to itself and undefined ("undefined") to NaN.
parseFloat(val) ==
    CASE val.t = "number" -> Number(val.n)
      [] val.t = "string" -> parseFloatStr(val.s)
      [] OTHER -> NaN

\* (r || 0): NaN and 0 are falsy
OrZero(r) == IF r.nan \/ r.v = 0 THEN 0 ELSE r.v

\* Math.max(0, Math.min(100, parseFloat(v) || 0))
clampCoord(val) == Max(MinCoord, Min(MaxCoord, OrZero(parseFloat(val))))

\* JS truthiness of a value (!v is its negation)
Truthy(val) ==
    CASE val.t = "number" -> val.n # 0
      [] val.t = "string" -> val.s # <<>>
      [] OTHER -> FALSE

\* ------------------------------------------------------- inbound messages
\* The `data` object of an inbound envelope; a field the client left out is
\* Undefined (id 0: the client sent no id).
NoData == [id |-> 0, nickname |-> Undefined, username |-> Undefined,
           x |-> Undefined, y |-> Undefined, text |-> Undefined]

\* A raw inbound message, by what JSON.parse makes of it:
\*   kind "invalid": JSON.parse throws;   kind "null": it returns null;
\*   kind "object":  an object with `type` and, when hasData, `data`.
Raw(kind, type, hasData, data) ==
    [kind |-> kind, type |-> type, hasData |-> hasData, data |-> data]

NoRaw == Raw("none", "", FALSE, NoData)

\* -------------------------------------------------------------- registry
DefaultLocation == "Park"

\* The player object handleNewConnection stores (data: <<>> is null, <<p>> a profile).
NewPlayer(playerId, t) ==
    [id |-> playerId, data |-> <<>>, location |-> DefaultLocation, lastActivity |-> t]

\* Variant that lets a client-supplied id stand (sensitivity check of C18).
ProfileClientId(hasData, playerData, playerId, t) ==
    LET d == IF hasData THEN playerData ELSE NoData
    IN  [id |-> IF d.id # 0 THEN d.id ELSE playerId, nickname |-> d.nickname,
         username |-> d.username, x |-> d.x, y |-> d.y, joinTime |-> t]

\* { ...playerData, id: playerId, joinTime: Date.now() }
Profile(hasData, playerData, playerId, t) ==
    LET d == IF hasData THEN playerData ELSE NoData
    IN  [id |-> playerId, nickname |-> d.nickname, username |-> d.username,
         x |-> d.x, y |-> d.y, joinTime |-> t]

\* Map.prototype.delete
Delete(P, playerId) == [i \in DOMAIN P \ {playerId} |-> P[i]]

RECURSIVE Ascending(_)
Ascending(S) ==
    IF S = {} THEN <<>>
    ELSE LET m == CHOOSE x \in S : \A y \in S : x <= y
         IN  <<m>> \o Ascending(S \ {m})

\* Variants of the filter, for the sensitivity checks of C2 and C5: one that
\* forgets `player.data !== null`, one that forgets `id !== excludePlayerId`.
InLocationAnyData(P, i, location, excludePlayerId) ==
    /\ i # excludePlayerId
    /\ P[i].location = location

InLocationNoExclude(P, i, location, excludePlayerId) ==
    /\ P[i].location = location
    /\ P[i].data # <<>>

\* The filter of getPlayersInLocation's loop body.
InLocation(P, i, location, excludePlayerId) ==
    /\ i # excludePlayerId
    /\ P[i].location = location
    /\ P[i].data # <<>>

\* getPlayersInLocation: the ids of the players it returns, in Map order.
getPlayersInLocation(P, location, excludePlayerId) ==
    Ascending({i \in DOMAIN P : InLocation(P, i, location, excludePlayerId)})

\* ------------------------------------------------------ outbound messages
BlankMsg ==
    [type |-> "", id |-> 0, profiles |-> <<>>, nickname |-> Undefined,
     username |-> Undefined, x |-> Undefined, y |-> Undefined, text |-> <<>>,
     message |-> "", timestamp |-> 0]

ConnectionEstablished(playerId) ==
    [BlankMsg EXCEPT !.type = "connection_established", !.id = playerId]

ErrorMsg(message) == [BlankMsg EXCEPT !.type = "error", !.message = message]

\* data: otherPlayers.map(p => p.data)   (profiles: the data values, <<>> for null)
PlayerList(P, others) ==
    [BlankMsg EXCEPT !.type = "player_list",
                     !.profiles = [k \in 1..Len(others) |-> P[others[k]].data]]

\* data: player.data   (id: the session the broadcast is about)
PlayerJoined(playerId, data) ==
    [BlankMsg EXCEPT !.type = "player_joined", !.id = playerId, !.profiles = <<data>>]

PlayerLeft(playerId, nickname) ==
    [BlankMsg EXCEPT !.type = "player_left", !.id = playerId, !.nickname = nickname]

PlayerMoved(playerId, x, y) ==
    [BlankMsg EXCEPT !.type = "player_moved", !.id = playerId,
                     !.x = Num(x), !.y = Num(y)]

ChatMessage(playerId, profile, text, t) ==
    [BlankMsg EXCEPT !.type = "chat_message", !.id = playerId,
                     !.username = profile.username, !.nickname = profile.nickname,
                     !.text = text, !.timestamp = t]

\* shutdown's notice to every player of the registry
ServerShutdown ==
    [BlankMsg EXCEPT !.type = "server_shutdown", !.message = "Server is shutting down"]

\* One call of ws.send: the socket, the message, whether it returned, the
\* location the broadcast was addressed to ("" for a direct sendToPlayer), and
\* the recipient's registry entry at that moment: its location ("" if it has
\* none) and whether its data was set.
Sent(to, msg, ok, scope, rloc, rjoined) ==
    [to |-> to, msg |-> msg, ok |-> ok, scope |-> scope, rloc |-> rloc,
     rjoined |-> rjoined]

\* ------------------------------------------------------------ call stack
\* The machine a handler runs on: m.players, m.ws, m.now mirror the state,
\* m.stack the pending continuations, m.catcher the enclosing try block.
Frame(kind, id, rcpts, msg, location, data) ==
    [kind |-> kind, id |-> id, rcpts |-> rcpts, msg |-> msg,
     location |-> location, data |-> data]

\* sendToPlayer still to be called for each of rcpts with msg (the forEach of
\* broadcastToLocation, or a single call).
SendFrame(rcpts, msg, location) == Frame("send", 0, rcpts, msg, location, <<>>)

\* this.players.delete(playerId), after the broadcast of handlePlayerDisconnect
DisconnectFrame(playerId) == Frame("disconnect", playerId, <<>>, BlankMsg, "", <<>>)

\* this.players.delete(playerId), after the broadcast of handlePlayerLeave
LeaveFrame(playerId) == Frame("leave", playerId, <<>>, BlankMsg, "", <<>>)

\* the player_joined broadcast of handlePlayerJoin, after its player_list send;
\* `player` is the object captured before the send
JoinFrame(player) == Frame("join", player.id, <<>>, BlankMsg, player.location, player.data)

\* the for-of loop of cleanupDisconnectedPlayers, last: the key it visited last
SweepFrame(last) == Frame("sweep", last, <<>>, BlankMsg, "", <<>>)

\* the for-of loop of shutdown, last: the key it visited last
ShutdownFrame(last) == Frame("shutdown", last, <<>>, BlankMsg, "", <<>>)

Machine(P, W, t, c) ==
    [players |-> P, ws |-> W, now |-> t, stack |-> <<>>, outbox |-> <<>>,
     catcher |-> c, crashed |-> FALSE, overflow |-> FALSE]

Push(m, frames) == [m EXCEPT !.stack = frames \o @]

Depth(stk) == Cardinality({k \in 1..Len(stk) : stk[k].kind = "disconnect"})

\* ------------------------------------------------------- the handler body
\* sendToPlayer(playerId, message) and broadcastToLocation(location, message,
\* excludePlayerId), as calls still to be made.
sendToPlayer(m, playerId, message) ==
    Push(m, <<SendFrame(<<playerId>>, message, "")>>)

broadcastToLocation(m, location, message, excludePlayerId) ==
    Push(m, <<SendFrame(getPlayersInLocation(m.players, location, excludePlayerId),
                        message, location)>>)

\* An exception no sendToPlayer catch covers.  Inside the try block of
\* handlePlayerMessage it lands in its catch, which replies 'Invalid message
\* format'; anywhere else (a close, error or timer callback, or the catch
\* block itself) it is uncaught and ends the process.
Throw(m) ==
    IF m.catcher # 0
    THEN sendToPlayer([m EXCEPT !.stack = <<>>, !.catcher = 0], m.catcher,
                      ErrorMsg("Invalid message format"))
    ELSE [m EXCEPT !.stack = <<>>, !.crashed = TRUE]

\* Variant of handlePlayerDisconnect that deletes without telling anyone
\* (sensitivity check of C19).
handlePlayerDisconnectUntold(m, playerId) ==
    IF playerId \notin DOMAIN m.players THEN m
    ELSE [m EXCEPT !.players = Delete(@, playerId)]

\* handlePlayerDisconnect: broadcast player_left if the player has joined,
\* then delete it.  The delete waits on the stack until the broadcast is over.
handlePlayerDisconnect(m, playerId) ==
    IF playerId \notin DOMAIN m.players THEN m
    ELSE LET player == m.players[playerId] IN
         IF player.data = <<>>
         THEN [m EXCEPT !.players = Delete(@, playerId)]
         ELSE IF Depth(m.stack) >= MaxDepth              \* RangeError
              THEN Throw([m EXCEPT !.overflow = TRUE])
         ELSE broadcastToLocation(Push(m, <<DisconnectFrame(playerId)>>),
                                  player.location,
                                  PlayerLeft(playerId, player.data[1].nickname),
                                  playerId)

\* Variants of the guard of sendToPlayer: one that does not look the player
\* up (sensitivity check of C14), one that ignores readyState (of C20).
CanSendUnregistered(m, playerId) == m.ws[playerId] = "OPEN"

CanSendClosed(m, playerId) == playerId \in DOMAIN m.players

\* The guard of sendToPlayer: player && player.ws.readyState === WebSocket.OPEN
CanSend(m, playerId) ==
    playerId \in DOMAIN m.players /\ m.ws[playerId] = "OPEN"

\* Variant of the reaper's condition that ignores the idle time (sensitivity
\* check of C7).
StaleSocketOnly(m, playerId) == m.ws[playerId] # "OPEN"

\* Variant of the reaper's condition that holds of every session (sensitivity
\* check of C16).
StaleAlways(m, playerId) == TRUE

\* The condition of the reaper's loop body.
Stale(m, playerId) ==
    \/ m.ws[playerId] # "OPEN"
    \/ (m.now - m.players[playerId].lastActivity) > timeout

LocationOf(m, playerId) ==
    IF playerId \in DOMAIN m.players THEN m.players[playerId].location ELSE ""

HasJoined(m, playerId) ==
    playerId \in DOMAIN m.players /\ m.players[playerId].data # <<>>

\* One step of the running handler: the innermost pending continuation.
\* T[r] says whether ws.send throws for socket r ("ok" / "fail").
Step(m, T) ==
    LET f == Head(m.stack)
        rest == Tail(m.stack)
    IN  CASE f.kind = "send" ->
               IF f.rcpts = <<>> THEN [m EXCEPT !.stack = rest]
               ELSE LET r == Head(f.rcpts)
                        m1 == [m EXCEPT !.stack = <<[f EXCEPT !.rcpts = Tail(@)]>> \o rest]
                        did(ok) == [m1 EXCEPT !.outbox =
                                       Append(@, Sent(r, f.msg, ok, f.location, LocationOf(m, r),
                                                      HasJoined(m, r)))]
                    IN  IF ~CanSend(m, r) THEN m1
                        ELSE IF T[r] = "ok" THEN did(TRUE)
                        ELSE handlePlayerDisconnect(did(FALSE), r)
          [] f.kind \in {"disconnect", "leave"} ->
               [m EXCEPT !.players = Delete(@, f.id), !.stack = rest]
          [] f.kind = "join" ->
               broadcastToLocation([m EXCEPT !.stack = rest], f.location,
                                   PlayerJoined(f.id, f.data), f.id)
          [] f.kind = "sweep" ->
               LET later == {i \in DOMAIN m.players : i > f.id} IN
               IF later = {} THEN [m EXCEPT !.stack = rest]
               ELSE LET i == CHOOSE x \in later : \A y \in later : x <= y
                        m1 == [m EXCEPT !.stack = <<[f EXCEPT !.id = i]>> \o rest]
                    IN  IF Stale(m, i) THEN handlePlayerDisconnect(m1, i) ELSE m1
          [] f.kind = "shutdown" ->
               LET later == {i \in DOMAIN m.players : i > f.id} IN
               IF later = {} THEN [m EXCEPT !.stack = rest]
               ELSE LET i == CHOOSE x \in later : \A y \in later : x <= y
                        m1 == [m EXCEPT !.stack = <<[f EXCEPT !.id = i]>> \o rest]
                    IN  sendToPlayer(m1, i, ServerShutdown)

\* The handler has to call ws.send on a socket whose outcome is not yet known.
Blocked(m, T) ==
    /\ m.stack # <<>>
    /\ Head(m.stack).kind = "send"
    /\ Head(m.stack).rcpts # <<>>
    /\ CanSend(m, Head(Head(m.stack).rcpts))
    /\ T[Head(Head(m.stack).rcpts)] = "unknown"

\* Run the handler until it returns, dies, or needs a send outcome.
RECURSIVE Settle(_, _)
Settle(m, T) ==
    IF m.crashed \/ m.stack = <<>> \/ Blocked(m, T) THEN m
    ELSE Settle(Step(m, T), T)

\* ------------------------------------------------------- message handlers
\* Variant of handlePlayerJoin that sends the player_list but announces
\* nothing (sensitivity check of C6).
handlePlayerJoinUnannounced(m, playerId, hasData, playerData) ==
    LET profile == Profile(hasData, playerData, playerId, m.now)
        m1 == [m EXCEPT !.players[playerId].data = <<profile>>]
        player == m1.players[playerId]
        otherPlayers == getPlayersInLocation(m1.players, player.location, playerId)
    IN  Push(m1, <<SendFrame(<<playerId>>, PlayerList(m1.players, otherPlayers), "")>>)

handlePlayerJoin(m, playerId, hasData, playerData) ==
    LET profile == Profile(hasData, playerData, playerId, m.now)
        m1 == [m EXCEPT !.players[playerId].data = <<profile>>]
        player == m1.players[playerId]
        otherPlayers == getPlayersInLocation(m1.players, player.location, playerId)
    IN  Push(m1, <<SendFrame(<<playerId>>, PlayerList(m1.players, otherPlayers), ""),
                   JoinFrame(player)>>)

handlePlayerLeave(m, playerId) ==
    LET player == m.players[playerId] IN
    IF player.data = <<>> THEN m
    ELSE broadcastToLocation(Push(m, <<LeaveFrame(playerId)>>), player.location,
                             PlayerLeft(playerId, player.data[1].nickname), playerId)

\* Variant that cuts before it trims (sensitivity check of C10).
chatTextCutFirst(s) == trim(substring(s, 0, MaxChatLen))

\* messageData.text.trim().substring(0, 200)
chatText(s) == substring(trim(s), 0, MaxChatLen)

handleChatMessage(m, playerId, hasData, messageData) ==
    LET player == m.players[playerId] IN
    IF player.data = <<>> THEN m
    ELSE IF ~hasData THEN Throw(m)                       \* TypeError: messageData is undefined
    ELSE IF ~Truthy(messageData.text) THEN m
    ELSE IF messageData.text.t # "string" THEN Throw(m)  \* TypeError: trim is not a function
    ELSE IF Len(trim(messageData.text.s)) = 0 THEN m
    ELSE broadcastToLocation(m, player.location,
                             ChatMessage(playerId, player.data[1],
                                         chatText(messageData.text.s), m.now),
                             playerId)

handlePlayerMove(m, playerId, hasData, moveData) ==
    LET player == m.players[playerId] IN
    IF player.data = <<>> THEN m
    ELSE IF ~hasData THEN Throw(m)                       \* TypeError: moveData is undefined
    ELSE LET x == clampCoord(moveData.x)
             y == clampCoord(moveData.y)
             m1 == [m EXCEPT !.players[playerId].data[1].x = Num(x),
                             !.players[playerId].data[1].y = Num(y)]
         IN  broadcastToLocation(m1, player.location, PlayerMoved(playerId, x, y), playerId)

\* Variant of the default case that replies nothing (sensitivity check of C8).
unknownMessageTypeSilent(m, playerId) == m

\* The default case of the switch: reply 'Unknown message type' to the sender.
unknownMessageType(m, playerId) ==
    sendToPlayer(m, playerId, ErrorMsg("Unknown message type"))

\* handlePlayerMessage, from the state (P, W, t)
handlePlayerMessage(P, W, t, playerId, raw) ==
    IF raw.kind = "invalid" THEN Throw(Machine(P, W, t, playerId))  \* JSON.parse throws
    ELSE IF playerId \notin DOMAIN P THEN Machine(P, W, t, 0)
    ELSE LET m == Machine([P EXCEPT ![playerId].lastActivity = t], W, t, playerId) IN
         IF raw.kind = "null" THEN Throw(m)              \* TypeError: message is null
         ELSE CASE raw.type = "player_join" ->
                     handlePlayerJoin(m, playerId, raw.hasData, raw.data)
                [] raw.type = "player_leave" -> handlePlayerLeave(m, playerId)
                [] raw.type = "chat_message" ->
                     handleChatMessage(m, playerId, raw.hasData, raw.data)
                [] raw.type = "player_move" ->
                     handlePlayerMove(m, playerId, raw.hasData, raw.data)
                [] OTHER -> unknownMessageType(m, playerId)

\* ----------------------------------------------------------------- inputs
Chars(n, c) == [k \in 1..n |-> c]

Al == [NoData EXCEPT !.nickname = Str(<<"A", "l">>), !.username = Str(<<"a">>)]

Bo == [NoData EXCEPT !.id = 1, !.nickname = Str(<<"B", "o">>), !.username = Str(<<"b">>),
                     !.x = Num(500), !.y = Num(0 - 3)]

JoinInputs == {Al, Bo}

MoveInputs ==
    { [NoData EXCEPT !.x = Num(0 - 5), !.y = Num(150)],
      [NoData EXCEPT !.x = Str(<<"5", "0">>), !.y = Str(<<"a", "b", "c">>)],
      [NoData EXCEPT !.x = Str(<<" ", "7", "x">>)] }

ChatInputs ==
    { [NoData EXCEPT !.text = Str(<<>>)],
      [NoData EXCEPT !.text = Str(<<" ", "\t", " ">>)],
      [NoData EXCEPT !.text = Str(<<" ", "h", "i", " ", "u", " ">>)],
      [NoData EXCEPT !.text = Str(<<" ">> \o Chars(250, "a"))],
      [NoData EXCEPT !.text = Num(5)] }

Types == {"player_join", "player_leave", "chat_message", "player_move"}

\* The envelopes a client sends under SpecData: every payload above, and the
\* malformed ones (unparsable text, null, no type, a known type without data).
RawMessages ==
    {Raw("invalid", "", FALSE, NoData), Raw("null", "", FALSE, NoData),
     Raw("object", "bogus", FALSE, NoData)}
    \cup {Raw("object", "player_join", TRUE, d) : d \in JoinInputs}
    \cup {Raw("object", "player_move", TRUE, d) : d \in MoveInputs}
    \cup {Raw("object", "chat_message", TRUE, d) : d \in ChatInputs}
    \cup {Raw("object", type, FALSE, NoData) : type \in Types}

\* The envelopes a client sends under SpecCrowd: one of each kind.
CoreMessages ==
    {Raw("invalid", "", FALSE, NoData), Raw("null", "", FALSE, NoData),
     Raw("object", "bogus", FALSE, NoData),
     Raw("object", "player_join", TRUE, Al),
     Raw("object", "player_leave", FALSE, NoData),
     Raw("object", "player_move", TRUE, [NoData EXCEPT !.x = Num(0 - 5), !.y = Num(150)]),
     Raw("object", "chat_message", TRUE,
         [NoData EXCEPT !.text = Str(<<" ", "h", "i", " ", "u", " ">>)])}

\* The envelopes a client sends under Spec: those that leave positions alone.
TimedMessages == {raw \in CoreMessages : raw.type # "player_move"}

\* ------------------------------------------------------------ the actions
Event(kind, id, msg) == [kind |-> kind, id |-> id, msg |-> msg]
NoEvent == Event("none", 0, NoRaw)
Unknown == [i \in Ids |-> "unknown"]

Init ==
    /\ players = <<>>
    /\ ws = <<>>
    /\ now = 0
    /\ pc = "idle"
    /\ ev = NoEvent
    /\ pre = <<>>
    /\ stack = <<>>
    /\ outbox = <<>>
    /\ tx = Unknown
    /\ catcher = 0
    /\ overflow = FALSE
    /\ view = [i \in Ids |-> <<>>]

\* The state after the handler ran as far as machine m.
Commit(m, e, P0, T) ==
    /\ players' = m.players
    /\ ws' = m.ws
    /\ stack' = m.stack
    /\ outbox' = m.outbox
    /\ catcher' = IF m.stack = <<>> THEN 0 ELSE m.catcher
    /\ pc' = IF m.crashed THEN "crashed" ELSE IF m.stack = <<>> THEN "done" ELSE "running"
    /\ ev' = e
    /\ pre' = P0
    /\ tx' = T
    /\ overflow' = m.overflow
    /\ UNCHANGED <<now, view>>

\* wss.on('connection'): handleNewConnection
Connect(limit) ==
    /\ pc = "idle"
    /\ Len(ws) < limit
    /\ LET playerId == Len(ws) + 1
           P == [i \in DOMAIN players \cup {playerId} |->
                    IF i = playerId THEN NewPlayer(playerId, now) ELSE players[i]]
           m == sendToPlayer(Machine(P, Append(ws, "OPEN"), now, 0), playerId,
                             ConnectionEstablished(playerId))
       IN  Commit(Settle(m, Unknown), Event("connection", playerId, NoRaw), players, Unknown)

\* ws.on('message'): handlePlayerMessage
Message(playerId, raw) ==
    /\ pc = "idle"
    /\ playerId \in 1..Len(ws)
    /\ ws[playerId] = "OPEN"
    /\ Commit(Settle(handlePlayerMessage(players, ws, now, playerId, raw), Unknown),
              Event("message", playerId, raw), players, Unknown)

\* The socket stops being open; its close event has not been delivered yet.
TransportDown(playerId) ==
    /\ pc = "idle"
    /\ playerId \in 1..Len(ws)
    /\ ws[playerId] = "OPEN"
    /\ ws' = [ws EXCEPT ![playerId] = "CLOSED"]
    /\ UNCHANGED <<players, now, pc, ev, pre, stack, outbox, tx, catcher, overflow, view>>

\* ws.on('close'): handlePlayerDisconnect
OnClose(playerId) ==
    /\ pc = "idle"
    /\ playerId \in 1..Len(ws)
    /\ ws[playerId] = "CLOSED"
    /\ Commit(Settle(handlePlayerDisconnect(Machine(players, ws, now, 0), playerId), Unknown),
              Event("close", playerId, NoRaw), players, Unknown)

\* ws.on('error'): handlePlayerDisconnect (the socket has left OPEN when it fires)
OnError(playerId) ==
    /\ pc = "idle"
    /\ playerId \in 1..Len(ws)
    /\ ws[playerId] = "OPEN"
    /\ LET W == [ws EXCEPT ![playerId] = "CLOSED"] IN
       Commit(Settle(handlePlayerDisconnect(Machine(players, W, now, 0), playerId), Unknown),
              Event("error", playerId, NoRaw), players, Unknown)

\* setInterval(..., 30000): cleanupDisconnectedPlayers
Sweep ==
    /\ pc = "idle"
    /\ Commit(Settle(Push(Machine(players, ws, now, 0), <<SweepFrame(0)>>), Unknown),
              Event("sweep", 0, NoRaw), players, Unknown)

\* process.on('SIGINT' / 'SIGTERM'): shutdown, up to the call of wss.close
Shutdown ==
    /\ pc = "idle"
    /\ Commit(Settle(Push(Machine(players, ws, now, 0), <<ShutdownFrame(0)>>), Unknown),
              Event("shutdown", 0, NoRaw), players, Unknown)

\* ws.send returns for the socket the handler is about to write to.
SendOk ==
    /\ pc = "running"
    /\ LET r == Head(Head(stack).rcpts)
           T == [tx EXCEPT ![r] = "ok"]
           m == [Machine(players, ws, now, catcher) EXCEPT
                    !.stack = stack, !.outbox = outbox, !.overflow = overflow]
       IN  Commit(Settle(m, T), ev, pre, T)

\* ws.send throws for the socket the handler is about to write to.
SendThrows ==
    /\ pc = "running"
    /\ LET r == Head(Head(stack).rcpts)
           T == [tx EXCEPT ![r] = "fail"]
           m == [Machine(players, ws, now, catcher) EXCEPT
                    !.stack = stack, !.outbox = outbox, !.overflow = overflow]
       IN  Commit(Settle(m, T), ev, pre, T)

\* The handler has returned to the event loop; after shutdown the signal
\* handler goes on to process.exit(0).
Return ==
    /\ pc = "done"
    /\ pc' = IF ev.kind = "shutdown" THEN "exited" ELSE "idle"
    /\ ev' = NoEvent
    /\ pre' = <<>>
    /\ outbox' = <<>>
    /\ tx' = Unknown
    /\ overflow' = FALSE
    /\ UNCHANGED <<players, ws, now, stack, catcher, view>>

\* What a client makes of one write: a player_list replaces its view, a
\* player_joined adds to it, a player_left takes away from it.
Told(v, w) ==
    IF ~w.ok THEN v
    ELSE CASE w.msg.type = "player_list" ->
                [v EXCEPT ![w.to] =
                    <<{w.msg.profiles[j][1].id :
                          j \in {i \in DOMAIN w.msg.profiles : w.msg.profiles[i] # <<>>}}>>]
           [] w.msg.type = "player_joined" /\ v[w.to] # <<>> ->
                [v EXCEPT ![w.to] = <<@[1] \cup {w.msg.id}>>]
           [] w.msg.type = "player_left" /\ v[w.to] # <<>> ->
                [v EXCEPT ![w.to] = <<@[1] \ {w.msg.id}>>]
           [] OTHER -> v

RECURSIVE ToldAll(_, _)
ToldAll(v, writes) ==
    IF writes = <<>> THEN v ELSE ToldAll(Told(v, Head(writes)), Tail(writes))

\* The handler has returned to the event loop, and every client has taken in
\* what the handler wrote to it.
Receive ==
    /\ pc = "done"
    /\ pc' = IF ev.kind = "shutdown" THEN "exited" ELSE "idle"
    /\ ev' = NoEvent
    /\ pre' = <<>>
    /\ outbox' = <<>>
    /\ tx' = Unknown
    /\ overflow' = FALSE
    /\ view' = ToldAll(view, outbox)
    /\ UNCHANGED <<players, ws, now, stack, catcher>>

\* Time passes.
Tick ==
    /\ pc = "idle"
    /\ now < MaxTicks * timeout
    /\ now' = now + timeout
    /\ UNCHANGED <<players, ws, pc, ev, pre, stack, outbox, tx, catcher, overflow, view>>

\* Spec: MaxPlayers connections, with the clock advancing.
Next ==
    \/ Connect(MaxPlayers)
    \/ \E playerId \in Ids, raw \in TimedMessages : Message(playerId, raw)
    \/ \E playerId \in Ids : TransportDown(playerId)
    \/ \E playerId \in Ids : OnClose(playerId)
    \/ \E playerId \in Ids : OnError(playerId)
    \/ Sweep
    \/ Shutdown
    \/ SendOk
    \/ SendThrows
    \/ Return
    \/ Tick

Spec == Init /\ [][Next]_vars

\* SpecCrowd: MaxCrowd connections at one instant.
NextCrowd ==
    \/ Connect(MaxCrowd)
    \/ \E playerId \in Ids, raw \in CoreMessages : Message(playerId, raw)
    \/ \E playerId \in Ids : TransportDown(playerId)
    \/ \E playerId \in Ids : OnClose(playerId)
    \/ \E playerId \in Ids : OnError(playerId)
    \/ Sweep
    \/ Shutdown
    \/ SendOk
    \/ SendThrows
    \/ Return

SpecCrowd == Init /\ [][NextCrowd]_vars

\* SpecData: MaxPlayers connections at one instant, every payload.
NextData ==
    \/ Connect(MaxPlayers)
    \/ \E playerId \in Ids, raw \in RawMessages : Message(playerId, raw)
    \/ \E playerId \in Ids : TransportDown(playerId)
    \/ \E playerId \in Ids : OnClose(playerId)
    \/ \E playerId \in Ids : OnError(playerId)
    \/ Sweep
    \/ Shutdown
    \/ SendOk
    \/ SendThrows
    \/ Return

SpecData == Init /\ [][NextData]_vars

\* SpecView: MaxCrowd connections at one instant, every ws.send on an open
\* socket returns, and the clients' views are kept.
NextView ==
    \/ Connect(MaxCrowd)
    \/ \E playerId \in Ids, raw \in CoreMessages : Message(playerId, raw)
    \/ \E playerId \in Ids : TransportDown(playerId)
    \/ \E playerId \in Ids : OnClose(playerId)
    \/ \E playerId \in Ids : OnError(playerId)
    \/ Sweep
    \/ Shutdown
    \/ SendOk
    \/ Receive

SpecView == Init /\ [][NextView]_vars

\* ================================================================ claims
\* Vocabulary.  A state with pc = "done" is a handler that has just returned
\* normally: ev is the event it handled, pre the registry when it started,
\* outbox the writes it made.
Done == pc = "done"

BroadcastTypes == {"player_joined", "player_left", "player_moved", "chat_message"}

Writes == DOMAIN outbox

\* The writes that reached the client.
Delivered == {k \in Writes : outbox[k].ok}

\* Number of times session r was delivered a message of this type about session p.
Deliveries(r, type, p) ==
    Cardinality({k \in Delivered : /\ outbox[k].to = r
                                   /\ outbox[k].msg.type = type
                                   /\ outbox[k].msg.id = p})

WasActive(p) == p \in DOMAIN pre /\ pre[p].data # <<>>

IsMessage(type) == ev.kind = "message" /\ ev.msg.kind = "object" /\ ev.msg.type = type

\* The sessions the handled event asked to remove: the one that left or whose
\* socket closed or failed, those the reaper found stale, and those a write
\* failed for.
StaleAtStart(p) ==
    p \in DOMAIN pre /\ (ws[p] # "OPEN" \/ (now - pre[p].lastActivity) > timeout)

RemovalAsked ==
    {p \in DOMAIN pre :
        \/ ev.kind \in {"close", "error"} /\ ev.id = p
        \/ IsMessage("player_leave") /\ ev.id = p /\ WasActive(p)
        \/ ev.kind = "sweep" /\ StaleAtStart(p)}
    \cup {outbox[k].to : k \in Writes \ Delivered}

\* C1 (as claimed): whatever removal triggers a session id meets, each other
\* session is delivered player_left naming that id at most once, and when the
\* cleanup has finished the id is no longer in the registry.
C1_IdempotentRemoval ==
    /\ \A p \in Ids, r \in Ids : Deliveries(r, "player_left", p) <= 1
    /\ (Done /\ ~overflow) => \A p \in RemovalAsked : p \notin DOMAIN players

\* C2: a session whose data is null is no entry of any player_list and no
\* recipient of a player_joined / player_left / player_moved / chat_message;
\* every such broadcast is about a session that was active when the event
\* started (or is the one whose player_join is being handled); and what an unjoined session
\* does (any message but player_join, close, error) writes to no other socket.
Entries(k) == {outbox[k].msg.profiles[j] : j \in DOMAIN outbox[k].msg.profiles}

C2_Visibility ==
    /\ \A k \in Writes :
          outbox[k].msg.type = "player_list" =>
              \A e \in Entries(k) : e # <<>> /\ WasActive(e[1].id)
    /\ \A k \in Writes :
          outbox[k].msg.type \in BroadcastTypes =>
              /\ outbox[k].rjoined
              /\ \/ WasActive(outbox[k].msg.id)
                 \/ IsMessage("player_join") /\ outbox[k].msg.id = ev.id
    /\ ( /\ ev.kind \in {"message", "close", "error"}
         /\ ev.id \in DOMAIN pre
         /\ ~WasActive(ev.id)
         /\ ~IsMessage("player_join") )
       => \A k \in Writes : outbox[k].to = ev.id

\* An unjoined session with an open socket looks on while another session
\* joins a location that already has a player.
C2_UnjoinedLooksOn ==
    /\ Done
    /\ IsMessage("player_join")
    /\ \E u \in DOMAIN players : players[u].data = <<>> /\ ws[u] = "OPEN"
    /\ \E k \in Delivered :
          outbox[k].msg.type = "player_list" /\ Len(outbox[k].msg.profiles) > 0
    /\ \E k \in Delivered : outbox[k].msg.type = "player_joined"

\* C5: no player_joined / player_left / player_moved / chat_message is
\* written to the session it is about, nested cleanups included.
C5_ExclusionOnSelf ==
    \A k \in Writes :
        outbox[k].msg.type \in BroadcastTypes => outbox[k].to # outbox[k].msg.id

\* A cleanup nested in a broadcast: the write of a broadcast about an open
\* session failed for a recipient, whose player_left was then delivered.
C5_NestedCleanup ==
    /\ Done
    /\ \E j \in Writes \ Delivered, k \in Delivered :
          /\ outbox[j].msg.type \in BroadcastTypes
          /\ ws[outbox[j].msg.id] = "OPEN"
          /\ outbox[k].msg.type = "player_left"
          /\ outbox[k].msg.id = outbox[j].to
          /\ k > j

\* C3 (as claimed): the x and y stored for every active session, and those of
\* every profile written in a player_list or player_joined, are numbers in
\* [0, 100].  (A coordinate the client never supplied is let pass.)
InRange(val) ==
    \/ val.t = "undefined"
    \/ val.t = "number" /\ MinCoord <= val.n /\ val.n <= MaxCoord

C3_PositionInRange ==
    /\ \A p \in DOMAIN players :
          players[p].data # <<>> =>
              InRange(players[p].data[1].x) /\ InRange(players[p].data[1].y)
    /\ \A k \in Writes :
          outbox[k].msg.type \in {"player_list", "player_joined"} =>
              \A e \in Entries(k) : e # <<>> => InRange(e[1].x) /\ InRange(e[1].y)

\* C6 (as claimed): while S's player_join is handled S's data is set; when
\* the handler has returned, S has been delivered exactly one player_list,
\* whose entries are the data of the other sessions active in S's location;
\* every other such session with an open socket has been delivered exactly
\* one player_joined with S's profile; nothing else has been delivered.
Joiner == ev.id

Neighbours ==
    {r \in DOMAIN pre \ {Joiner} :
        pre[r].data # <<>> /\ pre[r].location = pre[Joiner].location}

Announces(k, r) ==
    /\ outbox[k].to = r
    /\ outbox[k].msg.type = "player_joined"
    /\ outbox[k].msg.id = Joiner
    /\ outbox[k].msg.profiles[1] # <<>>
    /\ outbox[k].msg.profiles[1][1].id = Joiner
    /\ outbox[k].msg.profiles[1][1].nickname = ev.msg.data.nickname
    /\ outbox[k].msg.profiles[1][1].username = ev.msg.data.username

Snapshot(k) ==
    /\ outbox[k].to = Joiner
    /\ outbox[k].msg.type = "player_list"
    /\ Entries(k) = {pre[r].data : r \in Neighbours}
    /\ Len(outbox[k].msg.profiles) = Cardinality(Neighbours)

JoinDelivered ==
    /\ Cardinality({k \in Delivered : Snapshot(k)}) = 1
    /\ \A r \in Neighbours :
          ws[r] = "OPEN" => Cardinality({k \in Delivered : Announces(k, r)}) = 1
    /\ \A k \in Delivered :
          \/ Snapshot(k)
          \/ \E r \in Neighbours : ws[r] = "OPEN" /\ Announces(k, r)

JoinerActive ==
    (IsMessage("player_join") /\ Joiner \in DOMAIN players) =>
        players[Joiner].data # <<>>

NoWriteFailed == \A k \in Writes : outbox[k].ok

Reaped == {c \in DOMAIN pre : WasActive(c) /\ StaleAtStart(c)}

SweepDone ==
    (Done /\ ev.kind = "sweep") =>
        \A c \in Reaped :
            /\ c \notin DOMAIN players
            /\ \A r \in DOMAIN players :
                  ( /\ players[r].data # <<>>
                    /\ players[r].location = pre[c].location
                    /\ ws[r] = "OPEN" )
                  => Deliveries(r, "player_left", c) >= 1

ListsRegistryOnly ==
    \A k \in Writes :
        outbox[k].msg.type = "player_list" =>
            \A e \in Entries(k) : e # <<>> => e[1].id \in DOMAIN pre

Gone(p) == p \in 1..Len(ws) /\ p \notin DOMAIN players

StaysGone == \A p \in Ids : Gone(p) => p \notin DOMAIN players'

C7_StaleReap == [](SweepDone /\ ListsRegistryOnly) /\ [][StaysGone]_vars

\* The sweep evicts a player that was only idle (its socket open), and the
\* player that remains is told.
C7_IdleEvicted ==
    /\ Done
    /\ ev.kind = "sweep"
    /\ \E c \in Reaped :
          /\ ws[c] = "OPEN"
          /\ \E r \in DOMAIN players : Deliveries(r, "player_left", c) = 1

\* C8 (as claimed): when a session of the registry has sent a type the switch
\* does not know, it has been delivered exactly one error, nothing has been
\* written to any other socket, and the registry is what it was but for the
\* sender's lastActivity.
UnknownTypeSent ==
    /\ ev.kind = "message"
    /\ ev.msg.kind = "object"
    /\ ev.msg.type \notin Types
    /\ ev.id \in DOMAIN pre

RepliedErrorOnly ==
    /\ Cardinality({k \in Delivered : outbox[k].to = ev.id /\ outbox[k].msg.type = "error"}) = 1
    /\ \A k \in Writes : outbox[k].to = ev.id /\ outbox[k].msg.type = "error"
    /\ Len(outbox) = 1

Malformed(raw) ==
    \/ raw.kind \in {"invalid", "null"}
    \/ /\ raw.kind = "object"
       /\ raw.type \in {"player_join", "chat_message", "player_move"}
       /\ ~raw.hasData

C9_MalformedEnvelope ==
    ( /\ Done
      /\ ev.kind = "message"
      /\ ev.id \in DOMAIN pre
      /\ Malformed(ev.msg)
      /\ NoWriteFailed )
    => RepliedErrorOnly /\ players = pre

\* C10: the text of a chat_message written for an active session is the first
\* 200 characters of the input without its leading and trailing white space;
\* a text that is empty or all white space makes the handler write nothing.
Leading(s) == Cardinality({i \in 1..Len(s) : \A j \in 1..i : s[j] \in Whitespace})

Trailing(s) == Cardinality({i \in 1..Len(s) : \A j \in i..Len(s) : s[j] \in Whitespace})

Blank(s) == Leading(s) = Len(s)

Cut(s, lo, hi) == [j \in 1..Min(MaxChatLen, hi - lo + 1) |-> s[lo + j - 1]]

Expected(s) == Cut(s, Leading(s) + 1, Len(s) - Trailing(s))

ChatSent ==
    /\ IsMessage("chat_message")
    /\ WasActive(ev.id)
    /\ ev.msg.hasData
    /\ ev.msg.data.text.t = "string"

C10_ChatTruncation ==
    ChatSent =>
        IF Blank(ev.msg.data.text.s)
        THEN outbox = <<>>
        ELSE \A k \in Writes :
                 outbox[k].msg.type = "chat_message" =>
                     outbox[k].msg.text = Expected(ev.msg.data.text.s)

\* A text longer than 200 characters is delivered with exactly 200.
C10_Truncated ==
    /\ ChatSent
    /\ Len(ev.msg.data.text.s) > MaxChatLen
    /\ \E k \in Delivered :
          /\ outbox[k].msg.type = "chat_message"
          /\ Len(outbox[k].msg.text) = MaxChatLen

\* C11 (as claimed): when a chat_message, player_move or player_join has been
\* handled, every session a write failed for is out of the registry, and every
\* other recipient of its broadcast that is still in the registry with an open
\* socket has been delivered the broadcast exactly once.
Original ==
    CASE IsMessage("chat_message") -> "chat_message"
      [] IsMessage("player_move") -> "player_moved"
      [] IsMessage("player_join") -> "player_joined"
      [] OTHER -> ""

Broadcasts ==
    /\ Original # ""
    /\ ev.id \in DOMAIN pre
    /\ \E k \in Writes : outbox[k].msg.type = Original /\ outbox[k].msg.id = ev.id

Recipients ==
    {r \in DOMAIN pre \ {ev.id} :
        pre[r].data # <<>> /\ pre[r].location = pre[ev.id].location}

FailedFor == {outbox[k].to : k \in Writes \ Delivered}

C11_PartialFailure ==
    (Done /\ Broadcasts) =>
        /\ \A r \in FailedFor : r \notin DOMAIN players
        /\ \A r \in Recipients \ FailedFor :
              (r \in DOMAIN players /\ ws[r] = "OPEN") =>
                  Deliveries(r, Original, ev.id) = 1

\* C12 (as claimed): no handler exhausts the call stack or ends the process,
\* and when a handler has returned every session a write failed for is out of
\* the registry.
C12_CleanupTerminates ==
    /\ pc # "crashed"
    /\ ~overflow
    /\ Done => \A r \in FailedFor : r \notin DOMAIN players

\* C13 (as claimed): when a player_leave has been handled, an active sender
\* is out of the registry and player_left with its id and nickname has been
\* written to every other active session of its location with an open socket;
\* for an unjoined sender nothing has been written and the registry is what it
\* was but for the sender's lastActivity.
LeftWritten(r) ==
    \E k \in Writes :
        /\ outbox[k].to = r
        /\ outbox[k].msg.type = "player_left"
        /\ outbox[k].msg.id = ev.id
        /\ outbox[k].msg.nickname = pre[ev.id].data[1].nickname

C13_PlayerLeave ==
    (Done /\ IsMessage("player_leave") /\ ev.id \in DOMAIN pre) =>
        IF WasActive(ev.id)
        THEN /\ ev.id \notin DOMAIN players
             /\ \A r \in Recipients : ws[r] = "OPEN" => LeftWritten(r)
        ELSE /\ outbox = <<>>
             /\ players = [pre EXCEPT ![ev.id].lastActivity = now]

\* C14: a message on the connection of a session that is no longer in the
\* registry, whatever its content, makes the handler return at once: nothing
\* is written and the registry is left as it was; and an id that has left the
\* registry is never put back.
RemovedSender == ev.kind = "message" /\ ev.id \notin DOMAIN pre

SilentNoOp == RemovedSender => (pc = "done" /\ outbox = <<>> /\ players = pre)

C14_UnknownSession == []SilentNoOp /\ [][StaysGone]_vars

\* A session that has left sends player_join on its still open connection.
C14_JoinAfterLeave ==
    /\ Done
    /\ RemovedSender
    /\ IsMessage("player_join")
    /\ \E r \in DOMAIN players : players[r].data # <<>> /\ ws[r] = "OPEN"

\* C15 (as claimed): when shutdown has notified the players, exactly one
\* server_shutdown has been written, or tried, to every connection whose socket
\* is open; and shutdown never dies of a failed write.
ShutdownWrites(c) ==
    Cardinality({k \in Writes : outbox[k].to = c /\ outbox[k].msg.type = "server_shutdown"})

C15_ShutdownNotice ==
    /\ (Done /\ ev.kind = "shutdown") =>
          \A c \in 1..Len(ws) : ws[c] = "OPEN" => ShutdownWrites(c) = 1
    /\ ev.kind = "shutdown" => pc # "crashed"

\* C16: during a sweep a session leaves the registry only if it was stale when
\* the sweep started (socket not open, or idle above the threshold) or a write
\* to it failed; and when the sweep has returned, no session that was stale at
\* its start is left, whatever was removed meanwhile.
SweepEvictsStaleOnly ==
    ev.kind = "sweep" =>
        \A p \in DOMAIN pre \ DOMAIN players : StaleAtStart(p) \/ p \in FailedFor

SweepLeavesNoStale ==
    (Done /\ ev.kind = "sweep") =>
        \A p \in DOMAIN pre : StaleAtStart(p) => p \notin DOMAIN players

C16_SweepExact == SweepEvictsStaleOnly /\ SweepLeavesNoStale

\* A sweep evicts a stale player; the write of its player_left to a later,
\* fresh session fails, so that session is gone before the loop reaches it.
C16_RemovedMidSweep ==
    /\ Done
    /\ ev.kind = "sweep"
    /\ \E c \in DOMAIN pre, r \in FailedFor :
          /\ StaleAtStart(c)
          /\ WasActive(c)
          /\ c < r
          /\ r \in DOMAIN pre
          /\ ~StaleAtStart(r)
          /\ r \notin DOMAIN players

\* C17 (as claimed): when a player_move of an active session has been handled,
\* with or without a data object, the stored position is the clamped parse of
\* the input (0 where it does not parse), every player_moved written carries
\* the stored values, and no error has been written to the sender.
Sign(s) == IF s # <<>> /\ s[1] = "-" THEN 0 - 1 ELSE 1

Unsigned(s) == IF s # <<>> /\ s[1] \in {"-", "+"} THEN Tail(s) ELSE s

NumeralLen(s) == Cardinality({i \in 1..Len(s) : \A j \in 1..i : IsDigit(s[j])})

RECURSIVE Decimal(_, _)
Decimal(s, n) == IF n = 0 THEN 0 ELSE Decimal(s, n - 1) * 10 + DigitVal(s[n])

Parsed(val) ==
    CASE val.t = "number" -> val.n
      [] val.t = "string" ->
            LET u == SubSeq(val.s, Leading(val.s) + 1, Len(val.s))
            IN  Sign(u) * Decimal(Unsigned(u), NumeralLen(Unsigned(u)))
      [] OTHER -> 0

Clamped(val) ==
    IF Parsed(val) < MinCoord THEN MinCoord
    ELSE IF Parsed(val) > MaxCoord THEN MaxCoord
    ELSE Parsed(val)

MoveSent == IsMessage("player_move") /\ WasActive(ev.id)

MoveInput == IF ev.msg.hasData THEN ev.msg.data ELSE NoData

C17_MoveNeverRejected ==
    (Done /\ MoveSent /\ NoWriteFailed) =>
        /\ ev.id \in DOMAIN players
        /\ players[ev.id].data # <<>>
        /\ players[ev.id].data[1].x = Num(Clamped(MoveInput.x))
        /\ players[ev.id].data[1].y = Num(Clamped(MoveInput.y))
        /\ \A k \in Writes :
              /\ outbox[k].msg.type # "error"
              /\ outbox[k].msg.type = "player_moved" =>
                    /\ outbox[k].msg.x = players[ev.id].data[1].x
                    /\ outbox[k].msg.y = players[ev.id].data[1].y

\* C18: the id inside the profile of every active session is its registry
\* key, whatever id the client sent; so no two sessions show the same profile
\* id, every player_joined carries the profile of the session it is about, and
\* the entries of a player_list are distinct sessions other than its recipient.
ProfileIds(k) == {e[1].id : e \in Entries(k) \ {<<>>}}

C18_ServerIdAuthoritative ==
    /\ \A p \in DOMAIN players :
          players[p].data # <<>> => players[p].data[1].id = p
    /\ \A p, q \in DOMAIN players :
          ( /\ players[p].data # <<>>
            /\ players[q].data # <<>>
            /\ players[p].data[1].id = players[q].data[1].id ) => p = q
    /\ \A k \in Writes :
          /\ outbox[k].msg.type = "player_joined" =>
                ProfileIds(k) = {outbox[k].msg.id}
          /\ outbox[k].msg.type = "player_list" =>
                /\ Cardinality(ProfileIds(k)) = Len(outbox[k].msg.profiles)
                /\ outbox[k].to \notin ProfileIds(k)
                /\ \A e \in Entries(k) : e # <<>> => e = pre[e[1].id].data

\* Session 2 joins with a payload that claims the id of session 1, which is
\* active, and session 1 is told.
C18_ClaimsAnotherId ==
    /\ Done
    /\ IsMessage("player_join")
    /\ ev.msg.hasData
    /\ ev.msg.data.id # 0
    /\ ev.msg.data.id # ev.id
    /\ WasActive(ev.msg.data.id)
    /\ \E k \in Delivered :
          outbox[k].msg.type = "player_joined" /\ outbox[k].to = ev.msg.data.id

\* C19: with every ws.send on an open socket returning, whenever no handler
\* is running, the view of every active session with an open socket (its last
\* player_list, plus the player_joined and minus the player_left it was
\* delivered since) is the set of the other active sessions of its location
\* in the registry.
Company(r) ==
    {p \in DOMAIN players \ {r} :
        players[p].data # <<>> /\ players[p].location = players[r].location}

C19_ViewConsistent ==
    pc = "idle" =>
        \A r \in DOMAIN players :
            (players[r].data # <<>> /\ ws[r] = "OPEN") => view[r] = <<Company(r)>>

\* A player that sees two others is delivered the player_left of one of them.
C19_SeesOneLeave ==
    /\ Done
    /\ \E k \in Delivered :
          /\ outbox[k].msg.type = "player_left"
          /\ view[outbox[k].to] # <<>>
          /\ outbox[k].msg.id \in view[outbox[k].to][1]
          /\ Cardinality(view[outbox[k].to][1]) = 2

\* C20: every write goes to a session that is in the registry at that moment
\* and whose socket is open, hence to none that was out of the registry when
\* the event started; and, failed writes apart, a message handler leaves every
\* session whose socket is not open in the registry as it was.
WrittenLive ==
    \A k \in Writes :
        /\ outbox[k].rloc # ""
        /\ ws[outbox[k].to] = "OPEN"
        /\ ev.kind # "connection" => outbox[k].to \in DOMAIN pre

SkippedUntouched ==
    (ev.kind = "message" /\ NoWriteFailed) =>
        \A r \in DOMAIN pre \ {ev.id} :
            ws[r] # "OPEN" => (r \in DOMAIN players /\ players[r] = pre[r])

C20_LiveMembersOnly == WrittenLive /\ SkippedUntouched

\* A player's broadcast passes over a player whose socket has closed and
\* reaches one whose socket is open.
C20_SkipsClosedSocket ==
    /\ Done
    /\ ev.kind = "message"
    /\ ev.id \in DOMAIN pre
    /\ \E r \in Recipients : ws[r] # "OPEN" /\ r \in DOMAIN players
    /\ \E k \in Delivered : outbox[k].msg.type \in BroadcastTypes
====
